---- MODULE Spec2Model ----
(***************************************************************************)
(* Model of the read path of the book catalog backend:                     *)
(*   BuchReadService.findById / find / #checkKeys  (buch-read.service)     *)
(*   BuchQueryResolver.findById / find             (buch-query.resolver)   *)
(* The QueryBuilder, the Buch entity and the store (TypeORM) are           *)
(* collaborators whose code is not part of the sources at hand; they are   *)
(* modelled from the specification (sections 3 and 4.2).                   *)
(*                                                                         *)
(* An async function runs synchronously up to its first await, so a call   *)
(* is one action up to `await ...getOne()/getMany()`, the store's answer   *)
(* is one action, and the continuation after the await is one action.      *)
(***************************************************************************)
EXTENDS Naturals, Sequences, FiniteSets, TLC

VARIABLES
    store,      \* the rows of the relational store (set of Book records)
    buchProps,  \* BuchReadService.#buchProps
    pc,         \* per request: "idle", "queried", "answered", "returned"
    req,        \* per request: the arguments of the call
    query,      \* per request: the query object built by the QueryBuilder
    nQueries,   \* per request: number of getOne/getMany executions started
    answer,     \* per request: the settled promise of getOne/getMany
    outcome,    \* per request: what the caller gets (value or failure)
    trace       \* per request: the phases of section 4.3 passed so far

vars == <<store, buchProps, pc, req, query, nQueries, answer, outcome, trace>>

----------------------------------------------------------------------------
(* Bounds *)

MaxId == 2      \* ids 1..MaxId may be in the store; MaxId+1 never is
MaxKeys == 2    \* largest number of keys of a criteria mapping

Requests == {"r1", "r2"}    \* concurrently handled requests

----------------------------------------------------------------------------
(* Entity model (section 3 of the specification) *)

\* Object.getOwnPropertyNames(new Buch())
BuchPropertyNames ==
    {"id", "isbn", "rating", "art", "preis", "rabatt", "lieferbar",
     "datum", "homepage", "titel", "abbildungen"}

\* The images relation of a row: loaded (joined) or absent.
NotLoaded == [loaded |-> FALSE, items |-> {}]

Abbildungen(id) == {[beschriftung |-> "Abb", buchId |-> id, nr |-> k] : k \in 1..(id % 2)}

\* The row with the given id. Strings that are searched by substring are
\* sequences of characters; other values are one-element sequences.
Book(id) ==
    [id |-> id,
     titel |-> IF id % 2 = 1 THEN <<"a", "b">> ELSE <<"b", "c">>,
     art |-> IF id % 2 = 1 THEN <<"KINDLE">> ELSE <<"DRUCKAUSGABE">>,
     schlagwoerter |-> IF id % 2 = 1 THEN {"JAVASCRIPT"} ELSE {"JAVASCRIPT", "TYPESCRIPT"},
     abbildungen |-> Abbildungen(id)]

\* The contents of the store: the rows 1..n, ids unique.
Stores == {{Book(i) : i \in 1..n} : n \in 0..MaxId}

----------------------------------------------------------------------------
(* Inputs *)

Ids == 1..(MaxId + 1)

MitAbbildungenArgs == {"undefined", "true", "false"}

\* key/value pairs a caller may put into a criteria mapping
CriteriaPairs ==
    {<<"titel", <<"a">>>>,
     <<"javascript", <<"true">>>>, <<"typescript", <<"true">>>>,
     <<"farbe", <<"rot">>>>}

\* A criteria mapping: its entries in insertion order, keys distinct.
IsMapping(s) == \A i, j \in 1..Len(s) : i # j => s[i][1] # s[j][1]

Suchkriterien ==
    {s \in UNION {[1..n -> CriteriaPairs] : n \in 0..MaxKeys} : IsMapping(s)}

\* The filters the GraphQL schema lets through (BuchFilter).
BuchFilterKeys == {"titel", "art", "lieferbar", "rating"}

BuchFilters == {s \in Suchkriterien : \A i \in 1..Len(s) : s[i][1] \in BuchFilterKeys}

----------------------------------------------------------------------------
(* Query Builder and store (section 4.2 of the specification) *)

\* buildId({ id, mitAbbildungen }): at most one row, images joined on request
buildId(id, mitAbbildungen) ==
    [kind |-> "one", id |-> id, joinAbbildungen |-> mitAbbildungen, filter |-> <<>>]

\* build(suchkriterien): conjunction of all criteria; images are not joined
build(suchkriterien) ==
    [kind |-> "many", id |-> 0, joinAbbildungen |-> FALSE, filter |-> suchkriterien]

\* substring match of free-text fields
Contains(text, part) ==
    \E i \in 0..(Len(text) - Len(part)) : SubSeq(text, i + 1, i + Len(part)) = part

\* one criterion against one row
Matches(buch, key, value) ==
    CASE key = "titel" -> Contains(buch.titel, value)
      [] key = "art" -> buch.art = value
      [] key = "javascript" -> "JAVASCRIPT" \in buch.schlagwoerter
      [] key = "typescript" -> "TYPESCRIPT" \in buch.schlagwoerter
      [] OTHER -> FALSE

MatchesAll(buch, filter) ==
    \A i \in 1..Len(filter) : Matches(buch, filter[i][1], filter[i][2])

\* the projection of a row that a query delivers
Project(buch, joinAbbildungen) ==
    [id |-> buch.id, titel |-> buch.titel, art |-> buch.art,
     schlagwoerter |-> buch.schlagwoerter,
     abbildungen |-> IF joinAbbildungen
                     THEN [loaded |-> TRUE, items |-> buch.abbildungen]
                     ELSE NotLoaded]

\* a set of rows as a list in the order of their ids
RECURSIVE RowList(_)
RowList(rows) ==
    IF rows = {} THEN <<>>
    ELSE LET first == CHOOSE b \in rows : \A o \in rows : b.id <= o.id
         IN <<first>> \o RowList(rows \ {first})

\* getMany(): the list of rows matching the query's filter
getMany(q, rows) ==
    RowList({Project(b, q.joinAbbildungen) : b \in {x \in rows : MatchesAll(x, q.filter)}})

\* getOne(): the row with the query's id, or null (the empty list)
getOne(q, rows) ==
    RowList({Project(b, q.joinAbbildungen) : b \in {x \in rows : x.id = q.id}})

Execute(q, rows) == IF q.kind = "one" THEN getOne(q, rows) ELSE getMany(q, rows)

\* store-level failures (section 7)
StoreFailures == {"connectivity", "timeout"}

----------------------------------------------------------------------------
(* BuchReadService: the synchronous parts *)

NoMessage == [text |-> "", id |-> 0, suchkriterien |-> <<>>]

Pending == [kind |-> "pending", type |-> "", message |-> NoMessage, value |-> <<>>]

\* a value returned to the caller (a single Buch is the one-element list)
Fulfilled(rows) == [kind |-> "ok", type |-> "", message |-> NoMessage, value |-> rows]

\* throw new NotFoundException(text)
NotFoundException(text, id, suchkriterien) ==
    [kind |-> "error", type |-> "NotFoundException",
     message |-> [text |-> text, id |-> id, suchkriterien |-> suchkriterien],
     value |-> <<>>]

\* (mutant) a failure of the store is caught and reported as not found
RejectedAsNotFound(failure) == NotFoundException("Keine Buecher gefunden", 0, <<>>)

\* a rejected promise of the store, as it is
Rejected(failure) ==
    [kind |-> "error", type |-> failure, message |-> NoMessage, value |-> <<>>]

\* (mutant) the images are loaded unless the caller declines them
MitAbbildungenDefaultTrue(arg) == arg # "false"

\* findById({ id, mitAbbildungen = false }): the default of the parameter
MitAbbildungenDefault(arg) == IF arg = "undefined" THEN FALSE ELSE arg = "true"

\* Object.keys(suchkriterien)
ObjectKeys(suchkriterien) == [i \in 1..Len(suchkriterien) |-> suchkriterien[i][1]]

\* the test of #checkKeys for one key
IsKnownKey(key, props) ==
    key \in props \/ key = "javascript" \/ key = "typescript"

\* #checkKeys: keys.forEach with the flag validKeys
RECURSIVE ForEachKey(_, _, _)
ForEachKey(keys, props, validKeys) ==
    IF keys = <<>> THEN validKeys
    ELSE ForEachKey(Tail(keys), props,
                    IF ~IsKnownKey(Head(keys), props) THEN FALSE ELSE validKeys)

\* (mutant) the flag is overwritten by every key: the last key decides
checkKeysLastKey(keys, props) ==
    keys = <<>> \/ IsKnownKey(keys[Len(keys)], props)

\* (mutant) partial acceptance: one known key is enough
checkKeysPartial(keys, props) ==
    keys = <<>> \/ \E i \in 1..Len(keys) : IsKnownKey(keys[i], props)

checkKeys(keys, props) == ForEachKey(keys, props, TRUE)

\* (mutant) the test `keys.length === 0` is missing
IsUnfilteredUndefinedOnly(hasKriterien, suchkriterien) == ~hasKriterien

\* find: no criteria at all, or a mapping without keys
IsUnfiltered(hasKriterien, suchkriterien) ==
    ~hasKriterien \/ Len(ObjectKeys(suchkriterien)) = 0

\* (mutant) the test `buch === null` is missing
findByIdAfterAwaitNoNullCheck(rq, rows) == Fulfilled(rows)

\* findById after `await ...getOne()`: null is a NotFoundException
findByIdAfterAwait(rq, rows) ==
    IF rows = <<>>
    THEN NotFoundException("Es gibt kein Buch mit der ID", rq.id, <<>>)
    ELSE Fulfilled(rows)

\* (mutant) the test `buecher.length === 0` is missing
findAfterAwaitNoLengthCheck(rq, rows) == Fulfilled(rows)

\* find after `await ...getMany()`: no rows is a NotFoundException
findAfterAwait(rq, rows) ==
    IF Len(rows) = 0
    THEN NotFoundException("Keine Buecher gefunden", 0, rq.suchkriterien)
    ELSE Fulfilled(rows)

\* find without criteria: the promise of getMany() is returned as it is
findUnfilteredAfterAwait(rq, rows) == Fulfilled(rows)

----------------------------------------------------------------------------
(* State machine *)

NoRequest ==
    [op |-> "none", id |-> 0, mitAbbildungen |-> "undefined",
     hasKriterien |-> FALSE, suchkriterien |-> <<>>, via |-> "none", cont |-> "none"]

NoQuery == [kind |-> "none", id |-> 0, joinAbbildungen |-> FALSE, filter |-> <<>>]

NoAnswer == [status |-> "none", rows |-> <<>>, failure |-> ""]

Init ==
    /\ store \in Stores
    /\ buchProps = BuchPropertyNames
    /\ pc = [r \in Requests |-> "idle"]
    /\ req = [r \in Requests |-> NoRequest]
    /\ query = [r \in Requests |-> NoQuery]
    /\ nQueries = [r \in Requests |-> 0]
    /\ answer = [r \in Requests |-> NoAnswer]
    /\ outcome = [r \in Requests |-> Pending]
    /\ trace = [r \in Requests |-> <<>>]

\* BuchReadService.findById up to `await ...buildId(...).getOne()`
findById(r, id, mitAbbildungenArg, via) ==
    /\ pc[r] = "idle"
    /\ req' = [req EXCEPT ![r] =
                 [op |-> "findById", id |-> id, mitAbbildungen |-> mitAbbildungenArg,
                  hasKriterien |-> FALSE, suchkriterien |-> <<>>, via |-> via,
                  cont |-> "findById"]]
    /\ query' = [query EXCEPT ![r] = buildId(id, MitAbbildungenDefault(mitAbbildungenArg))]
    /\ nQueries' = [nQueries EXCEPT ![r] = @ + 1]
    /\ pc' = [pc EXCEPT ![r] = "queried"]
    /\ trace' = [trace EXCEPT ![r] = <<"received", "queried">>]
    /\ UNCHANGED <<store, buchProps, answer, outcome>>

\* BuchReadService.find up to its throw, or up to `...build(...).getMany()`
find(r, hasKriterien, suchkriterien, via) ==
    /\ pc[r] = "idle"
    /\ hasKriterien \/ suchkriterien = <<>>
    /\ LET rq(cont) == [op |-> "find", id |-> 0, mitAbbildungen |-> "undefined",
                        hasKriterien |-> hasKriterien, suchkriterien |-> suchkriterien,
                        via |-> via, cont |-> cont]
           keys == ObjectKeys(suchkriterien)
       IN IF IsUnfiltered(hasKriterien, suchkriterien)
          THEN /\ req' = [req EXCEPT ![r] = rq("findUnfiltered")]
               /\ query' = [query EXCEPT ![r] =
                              build(IF hasKriterien THEN suchkriterien ELSE <<>>)]
               /\ nQueries' = [nQueries EXCEPT ![r] = @ + 1]
               /\ pc' = [pc EXCEPT ![r] = "queried"]
               /\ trace' = [trace EXCEPT ![r] = <<"received", "queried">>]
               /\ UNCHANGED outcome
          ELSE IF ~checkKeys(keys, buchProps)
          THEN /\ req' = [req EXCEPT ![r] = rq("none")]
               /\ outcome' = [outcome EXCEPT ![r] =
                                NotFoundException("Ungueltige Suchkriterien", 0, <<>>)]
               /\ pc' = [pc EXCEPT ![r] = "returned"]
               /\ trace' = [trace EXCEPT ![r] = <<"received", "returned">>]
               /\ UNCHANGED <<query, nQueries>>
          ELSE /\ req' = [req EXCEPT ![r] = rq("find")]
               /\ query' = [query EXCEPT ![r] = build(suchkriterien)]
               /\ nQueries' = [nQueries EXCEPT ![r] = @ + 1]
               /\ pc' = [pc EXCEPT ![r] = "queried"]
               /\ trace' = [trace EXCEPT ![r] = <<"received", "validated", "queried">>]
               /\ UNCHANGED outcome
    /\ UNCHANGED <<store, buchProps, answer>>

\* a caller of the service: findById({ id, mitAbbildungen? })
ServiceFindById(r) ==
    \E id \in Ids, m \in MitAbbildungenArgs : findById(r, id, m, "service")

\* a caller of the service: find() or find(suchkriterien)
ServiceFind(r) ==
    \/ find(r, FALSE, <<>>, "service")
    \/ \E s \in Suchkriterien : find(r, TRUE, s, "service")

\* BuchQueryResolver.findById: the GraphQL query `buch` passes the id alone
ResolverFindById(r) ==
    \E id \in Ids : findById(r, id, "undefined", "graphql")

\* BuchQueryResolver.find: the GraphQL query `buecher` passes its filter
ResolverFind(r) ==
    \E f \in BuchFilters : find(r, TRUE, f, "graphql")

\* (mutant) one query object shared by all calls: the query executed for
\* r is the one of another request suspended at the same time
QueryOfShared(r) ==
    LET others == {o \in Requests \ {r} : pc[o] = "queried"}
    IN IF others = {} THEN query[r] ELSE query[CHOOSE o \in others : TRUE]

\* the query executed for request r: the one built in its own call
QueryOf(r) == query[r]

\* the store fulfils the promise of getOne()/getMany()
StoreFulfils(r) ==
    /\ pc[r] = "queried"
    /\ answer' = [answer EXCEPT ![r] =
                    [status |-> "fulfilled", rows |-> Execute(QueryOf(r), store),
                     failure |-> ""]]
    /\ pc' = [pc EXCEPT ![r] = "answered"]
    /\ UNCHANGED <<store, buchProps, req, query, nQueries, outcome, trace>>

\* the store rejects the promise of getOne()/getMany()
StoreRejects(r) ==
    /\ pc[r] = "queried"
    /\ \E f \in StoreFailures :
          answer' = [answer EXCEPT ![r] =
                       [status |-> "rejected", rows |-> <<>>, failure |-> f]]
    /\ pc' = [pc EXCEPT ![r] = "answered"]
    /\ UNCHANGED <<store, buchProps, req, query, nQueries, outcome, trace>>

\* the value or failure the continuation after the await ends with
AwaitedResult(r) ==
    IF answer[r].status = "rejected" THEN Rejected(answer[r].failure)
    ELSE CASE req[r].cont = "findById" -> findByIdAfterAwait(req[r], answer[r].rows)
           [] req[r].cont = "find" -> findAfterAwait(req[r], answer[r].rows)
           [] OTHER -> findUnfilteredAfterAwait(req[r], answer[r].rows)

\* the phases of the continuation: the found/not-found decision is taken by
\* findById and by find with criteria, on the rows of a fulfilled promise
PhasesAfterAwait(r, result) ==
    (IF answer[r].status = "fulfilled" /\ req[r].cont \in {"findById", "find"}
     THEN IF result.kind = "ok" THEN <<"found">> ELSE <<"notfound">>
     ELSE <<>>) \o <<"returned">>

\* (mutant) the query is executed once more when it delivered no rows
ResumeWithRetry(r) ==
    /\ pc[r] = "answered"
    /\ IF answer[r].status = "fulfilled" /\ answer[r].rows = <<>> /\ nQueries[r] < 2
       THEN /\ nQueries' = [nQueries EXCEPT ![r] = @ + 1]
            /\ answer' = [answer EXCEPT ![r] = NoAnswer]
            /\ pc' = [pc EXCEPT ![r] = "queried"]
            /\ UNCHANGED <<outcome, trace>>
       ELSE /\ outcome' = [outcome EXCEPT ![r] = AwaitedResult(r)]
            /\ trace' = [trace EXCEPT ![r] = @ \o PhasesAfterAwait(r, AwaitedResult(r))]
            /\ pc' = [pc EXCEPT ![r] = "returned"]
            /\ UNCHANGED <<nQueries, answer>>
    /\ UNCHANGED <<store, buchProps, req, query>>

\* the continuation after the await, up to return or throw; the resolver
\* hands the value or the failure of the service on as it is
Resume(r) ==
    /\ pc[r] = "answered"
    /\ outcome' = [outcome EXCEPT ![r] = AwaitedResult(r)]
    /\ trace' = [trace EXCEPT ![r] = @ \o PhasesAfterAwait(r, AwaitedResult(r))]
    /\ pc' = [pc EXCEPT ![r] = "returned"]
    /\ UNCHANGED <<store, buchProps, req, query, nQueries, answer>>

Next ==
    \E r \in Requests :
        \/ ServiceFindById(r)
        \/ ServiceFind(r)
        \/ ResolverFindById(r)
        \/ ResolverFind(r)
        \/ StoreFulfils(r)
        \/ StoreRejects(r)
        \/ Resume(r)

Spec == Init /\ [][Next]_vars

\* the event loop runs the continuation of every settled promise
FairSpec == Spec /\ \A r \in Requests : WF_vars(Resume(r))

----------------------------------------------------------------------------
(* Properties *)

\* the keys a criteria mapping may have: the properties of a Book and the
\* two reserved keyword flags
ValidCriteriaKeys == BuchPropertyNames \cup {"javascript", "typescript"}

HasUnknownKey(s) == \E i \in 1..Len(s) : s[i][1] \notin ValidCriteriaKeys

\* the failure find raises for criteria it rejects
InvalidCriteriaFailure == NotFoundException("Ungueltige Suchkriterien", 0, <<>>)

\* the rows of the store matching all criteria, as the store lists them
MatchingBooks(s) ==
    RowList({Project(b, FALSE) : b \in {x \in store : MatchesAll(x, s)}})

AllBooks == RowList({Project(b, FALSE) : b \in store})

IsNotFound(o) == o.kind = "error" /\ o.type = "NotFoundException"

\* C1: a find whose criteria have at least one key that is neither a Book
\* property nor 'javascript'/'typescript' fails with the invalid-criteria
\* failure, and at no point of the request is a query built or executed.
C1_InvalidCriteriaNoQuery ==
    \A r \in Requests :
        (req[r].op = "find" /\ HasUnknownKey(req[r].suchkriterien))
        => /\ pc[r] = "returned"
           /\ outcome[r] = InvalidCriteriaFailure
           /\ nQueries[r] = 0
           /\ query[r] = NoQuery
           /\ answer[r] = NoAnswer

\* C1 witness: a mapping with a known key first and an unknown key second
\* has been rejected.
C1_Witness ==
    \E r \in Requests :
        /\ req[r].op = "find"
        /\ Len(req[r].suchkriterien) = 2
        /\ req[r].suchkriterien[1][1] \in ValidCriteriaKeys
        /\ req[r].suchkriterien[2][1] \notin ValidCriteriaKeys
        /\ outcome[r] = InvalidCriteriaFailure

C3_FilteredFind ==
    \A r \in Requests :
        (/\ req[r].op = "find"
         /\ Len(req[r].suchkriterien) > 0
         /\ ~HasUnknownKey(req[r].suchkriterien))
        => /\ nQueries[r] = 1
           /\ query[r] = build(req[r].suchkriterien)
           /\ outcome[r].kind = "ok" => outcome[r].value # <<>>
           /\ (pc[r] = "returned" /\ answer[r].status = "fulfilled")
              => outcome[r] =
                   IF MatchingBooks(req[r].suchkriterien) = <<>>
                   THEN NotFoundException("Keine Buecher gefunden", 0, req[r].suchkriterien)
                   ELSE Fulfilled(MatchingBooks(req[r].suchkriterien))

\* C3 witness: against one store, one filtered find has failed with
\* NotFound and another has returned a list that leaves out a row.
C3_Witness ==
    \E r1, r2 \in Requests :
        /\ req[r1].op = "find" /\ req[r2].op = "find"
        /\ Len(req[r1].suchkriterien) > 0
        /\ outcome[r1] =
             NotFoundException("Keine Buecher gefunden", 0, req[r1].suchkriterien)
        /\ outcome[r2].kind = "ok"
        /\ Len(req[r2].suchkriterien) = 2
        /\ Len(outcome[r2].value) = 1
        /\ Cardinality(store) = 2

\* C4: findById of a positive id fails with NotFound naming the id when no
\* Book with that id is in the store, and returns exactly the Book with that
\* id when there is one.
C4_FindById ==
    \A r \in Requests :
        (req[r].op = "findById" /\ pc[r] = "returned" /\ answer[r].status = "fulfilled")
        => IF \E b \in store : b.id = req[r].id
           THEN /\ outcome[r].kind = "ok"
                /\ Len(outcome[r].value) = 1
                /\ outcome[r].value[1].id = req[r].id
                /\ \E b \in store :
                      /\ b.id = req[r].id
                      /\ outcome[r].value[1].titel = b.titel
                      /\ outcome[r].value[1].art = b.art
                      /\ outcome[r].value[1].schlagwoerter = b.schlagwoerter
           ELSE outcome[r] =
                  NotFoundException("Es gibt kein Buch mit der ID", req[r].id, <<>>)

\* C4 witness: against a store of two Books, one lookup has returned the
\* Book with id 2 and another has failed for an id that is not stored.
C4_Witness ==
    \E r1, r2 \in Requests :
        /\ Cardinality(store) = 2
        /\ req[r1].op = "findById" /\ req[r1].id = 2
        /\ outcome[r1].kind = "ok" /\ outcome[r1].value[1].id = 2
        /\ req[r2].op = "findById"
        /\ IsNotFound(outcome[r2]) /\ outcome[r2].message.id = req[r2].id

\* C5: the validator accepts a key list if and only if every key is a Book
\* property or one of the flags 'javascript'/'typescript'; one unknown key
\* rejects the list, whatever its position and whatever accompanies it.
C5_CheckKeysAllOrNothing ==
    \A r \in Requests :
        (req[r].op = "find" /\ Len(req[r].suchkriterien) > 0)
        => /\ (\E i \in 1..Len(trace[r]) : trace[r][i] = "validated")
              <=> (\A i \in 1..Len(req[r].suchkriterien) :
                      req[r].suchkriterien[i][1] \in ValidCriteriaKeys)
           /\ (outcome[r] = InvalidCriteriaFailure)
              <=> HasUnknownKey(req[r].suchkriterien)

\* C5 witness: the same two keys, one known and one unknown, have been
\* rejected in both orders.
C5_Witness ==
    \E r1, r2 \in Requests :
        /\ Len(req[r1].suchkriterien) = 2 /\ Len(req[r2].suchkriterien) = 2
        /\ req[r1].suchkriterien[1] = req[r2].suchkriterien[2]
        /\ req[r1].suchkriterien[2] = req[r2].suchkriterien[1]
        /\ req[r1].suchkriterien[1][1] \in ValidCriteriaKeys
        /\ req[r1].suchkriterien[2][1] \notin ValidCriteriaKeys
        /\ outcome[r1] = InvalidCriteriaFailure
        /\ outcome[r2] = InvalidCriteriaFailure

\* the failures the service raises itself (not those of the store)
RaisedByService(r) == outcome[r].kind = "error" /\ answer[r].status # "rejected"

\* C6: the type of a failure of find or findById tells the caller which
\* condition occurred: criteria rejected for unknown keys are not reported
\* with the type that reports a lookup or filter without matching rows.
C6_FailureTypeTellsCondition ==
    \A r1, r2 \in Requests :
        (/\ RaisedByService(r1) /\ RaisedByService(r2)
         /\ outcome[r1].type = outcome[r2].type)
        => (HasUnknownKey(req[r1].suchkriterien) <=> HasUnknownKey(req[r2].suchkriterien))

\* C7: findById joins and returns the images of a Book exactly when the
\* caller passes mitAbbildungen true; with false or without the argument
\* the query has no images relation and the Book has no images. The GraphQL
\* query 'buch' passes the id alone and never loads images.
C7_ImagesOnlyOnRequest ==
    \A r \in Requests :
        req[r].op = "findById"
        => /\ query[r].joinAbbildungen <=> (req[r].mitAbbildungen = "true")
           /\ req[r].via = "graphql" => ~query[r].joinAbbildungen
           /\ outcome[r].kind = "ok"
              => \E b \in store :
                    /\ b.id = req[r].id
                    /\ outcome[r].value[1].abbildungen =
                         IF req[r].mitAbbildungen = "true"
                         THEN [loaded |-> TRUE, items |-> b.abbildungen]
                         ELSE NotLoaded

\* C7 witness: a Book that has an image has been returned with its images
\* to a caller asking for them, and without them to the GraphQL query.
C7_Witness ==
    \E r1, r2 \in Requests :
        /\ req[r1].op = "findById" /\ req[r1].mitAbbildungen = "true"
        /\ req[r2].op = "findById" /\ req[r2].via = "graphql"
        /\ req[r1].id = req[r2].id
        /\ outcome[r1].kind = "ok" /\ outcome[r2].kind = "ok"
        /\ outcome[r1].value[1].abbildungen.items # {}
        /\ outcome[r2].value[1].abbildungen = NotLoaded

\* C8: when the store fails the query of find or findById, that failure is
\* what the caller gets: the query is not executed again, and the outcome is
\* neither NotFound, nor the invalid-criteria failure, nor a value.
C8_StoreFailurePropagates ==
    \A r \in Requests :
        answer[r].status = "rejected"
        => /\ nQueries[r] = 1
           /\ pc[r] \in {"answered", "returned"}
           /\ pc[r] = "returned"
              => /\ outcome[r].kind = "error"
                 /\ outcome[r].type = answer[r].failure
                 /\ outcome[r].type \in StoreFailures
                 /\ outcome[r].message = NoMessage

\* C8 witness: a find and a findById have both ended with the failure of
\* the store.
C8_Witness ==
    \E r1, r2 \in Requests :
        /\ req[r1].op = "find" /\ req[r2].op = "findById"
        /\ answer[r1].status = "rejected" /\ answer[r2].status = "rejected"
        /\ outcome[r1].type = "timeout" /\ outcome[r2].type = "connectivity"

\* the position of a phase in received, validated, queried,
\* found | not-found, returned
PhaseRank(p) ==
    CASE p = "received" -> 1
      [] p = "validated" -> 2
      [] p = "queried" -> 3
      [] p \in {"found", "notfound"} -> 4
      [] OTHER -> 5

HasPhase(r, p) == \E i \in 1..Len(trace[r]) : trace[r][i] = p

\* the order of the phases of one request
PhasesInOrder(r) ==
    /\ \A i, j \in 1..Len(trace[r]) : i < j => PhaseRank(trace[r][i]) < PhaseRank(trace[r][j])
    /\ pc[r] # "idle" => trace[r][1] = "received"
    /\ pc[r] = "returned" <=> HasPhase(r, "returned")
    /\ HasPhase(r, "queried") <=> nQueries[r] > 0
    /\ nQueries[r] <= 1
    /\ (HasPhase(r, "queried") /\ Len(req[r].suchkriterien) > 0) => HasPhase(r, "validated")
    /\ (HasPhase(r, "found") \/ HasPhase(r, "notfound"))
       => (HasPhase(r, "queried") /\ answer[r].status = "fulfilled")
    /\ pc[r] = "returned" => outcome[r].kind # "pending"

\* C9: the phases of every request occur in the order received, validated,
\* queried, found or not-found, returned: a query is executed only after the
\* validation, at most once per request, the found/not-found decision is
\* taken on the answer of the store, and once the store has answered the
\* request reaches its outcome.
C9_RequestLifecycle ==
    /\ [](\A r \in Requests : PhasesInOrder(r))
    /\ \A r \in Requests : (pc[r] = "answered") ~> (pc[r] = "returned")

\* C9 witness: a request has passed all five phases.
C9_Witness ==
    \E r \in Requests :
        trace[r] = <<"received", "validated", "queried", "notfound", "returned">>

\* the outcome of a request handled alone: the call, the answer of the
\* store (its rows, or the failure it answered with) and the continuation
OutcomeAlone(rq, failure) ==
    IF rq.op = "findById"
    THEN IF failure # "" THEN Rejected(failure)
         ELSE LET rows == getOne(buildId(rq.id, rq.mitAbbildungen = "true"), store)
              IN IF rows = <<>>
                 THEN NotFoundException("Es gibt kein Buch mit der ID", rq.id, <<>>)
                 ELSE Fulfilled(rows)
    ELSE IF Len(rq.suchkriterien) = 0
    THEN IF failure # "" THEN Rejected(failure) ELSE Fulfilled(AllBooks)
    ELSE IF HasUnknownKey(rq.suchkriterien) THEN InvalidCriteriaFailure
    ELSE IF failure # "" THEN Rejected(failure)
    ELSE IF MatchingBooks(rq.suchkriterien) = <<>>
    THEN NotFoundException("Keine Buecher gefunden", 0, rq.suchkriterien)
    ELSE Fulfilled(MatchingBooks(rq.suchkriterien))

\* C10: requests suspended at their query at the same time do not affect
\* each other: the outcome of each is the outcome it has when handled alone
\* against the same store, and no step of a request changes the store or
\* the service's property names.
C10_RequestsIndependent ==
    /\ [](\A r \in Requests :
            pc[r] = "returned" => outcome[r] = OutcomeAlone(req[r], answer[r].failure))
    /\ [][store' = store /\ buchProps' = buchProps]_vars

\* C10 witness: two requests with different queries were suspended at the
\* same time, and one has ended while the other is still suspended.
C10_Witness ==
    \E r1, r2 \in Requests :
        /\ pc[r1] = "returned" /\ answer[r1].status = "fulfilled"
        /\ pc[r2] = "queried"
        /\ query[r1] # query[r2]
        /\ Execute(query[r1], store) # Execute(query[r2], store)

====
